---- MODULE Spec2Model ----
(***************************************************************************)
(* The AVI container writer of asset_extraction_framework (Asset/Avi.py):  *)
(* one AviFile object, the operations a caller can invoke on it, and the   *)
(* bytes its write() puts in the destination file.                         *)
(*                                                                         *)
(* Python values are modelled as follows.                                  *)
(*   - bytes objects are sequences of integers in 0..255;                  *)
(*   - an attribute that may hold None is a sequence of length 0 (None)    *)
(*     or 1 (the value);  an attribute that was never assigned on the      *)
(*     instance (bitmap_header before initialize_video_stream) is NoAttr;  *)
(*   - a raised exception is the name of its Python class, NoError when    *)
(*     the call returned normally.                                         *)
(***************************************************************************)
EXTENDS Integers, Sequences, FiniteSets, TLC

VARIABLES
    main_header,          \* AviFile.main_header (an AviMainHeader instance)
    audio_stream_header,  \* AviFile.audio_stream_header: None or an AviStreamHeader
    wave_header,          \* AviFile.wave_header: None or a PcmWaveFormatEx
    audio_chunks,         \* AviFile.audio_chunks: list of (fourcc, bytes)
    video_stream_header,  \* AviFile.video_stream_header: None or an AviStreamHeader
    bitmap_header,        \* AviFile.bitmap_header: absent until initialize_video_stream
    video_chunks,         \* AviFile.video_chunks: list of (fourcc, bytes)
    stream_rectangle,     \* AviStreamHeader.stream_rectangle: the class-level list
    out,                  \* what the most recent call did: exception, file written
    calls                 \* history: the add_* calls made so far, with their arguments

vars == <<main_header, audio_stream_header, wave_header, audio_chunks,
          video_stream_header, bitmap_header, video_chunks, stream_rectangle,
          out, calls>>

-----------------------------------------------------------------------------
(* Bounds of the model. *)

MaxFrames == 2
MaxChunks == 2

(* Python values. *)

None == <<>>
NoAttr == <<>>
Some(v) == <<v>>
IsNone(x) == Len(x) = 0
Val(x) == x[1]

NoError == "none"

(* FourCCs, as the ASCII codes of their four characters. *)

RIFF == <<82, 73, 70, 70>>
LIST == <<76, 73, 83, 84>>
AVI_ == <<65, 86, 73, 32>>
hdrl == <<104, 100, 114, 108>>
avih == <<97, 118, 105, 104>>
strl == <<115, 116, 114, 108>>
strh == <<115, 116, 114, 104>>
strf == <<115, 116, 114, 102>>
movi == <<109, 111, 118, 105>>

AviStreamType_Audio == <<97, 117, 100, 115>>
AviStreamType_Video == <<118, 105, 100, 115>>
AviStreamTwoCC_UncompressedVideo == <<100, 98>>
AviStreamTwoCC_Audio == <<119, 98>>
stream_data_handler == <<68, 73, 66, 32>>

(* Inputs the caller may pass. *)

VideoParams ==
    { [width |-> 2, height |-> 3, frames_per_second |-> 30, bits_per_pixel |-> 8,
       palette |-> None],
      [width |-> 4, height |-> 1, frames_per_second |-> 60, bits_per_pixel |-> 8,
       palette |-> Some(<<9, 8, 7>>)],
      [width |-> 0, height |-> 3, frames_per_second |-> 30, bits_per_pixel |-> 8,
       palette |-> None],
      [width |-> 2, height |-> -1, frames_per_second |-> 30, bits_per_pixel |-> 8,
       palette |-> None],
      [width |-> 2, height |-> 3, frames_per_second |-> 0, bits_per_pixel |-> 8,
       palette |-> None] }

AudioParams ==
    { [channel_count |-> 1, samples_per_second |-> 8000, bits_per_sample |-> 8],
      [channel_count |-> 2, samples_per_second |-> 11025, bits_per_sample |-> 16] }

FrameValues == { <<1>>, <<2, 3>> }
PcmValues == { <<4, 5, 6>>, <<>> }

-----------------------------------------------------------------------------
(* The binary stream opened by write(): its bytes, the position of the     *)
(* next write, and the exception that ended the write, if any.  Once an    *)
(* exception is raised nothing more is written.                            *)

open_wb == [data |-> <<>>, pos |-> 0, err |-> NoError, trace |-> <<>>]

raise(stream, exception) ==
    IF stream.err # NoError THEN stream ELSE [stream EXCEPT !.err = exception]

tell(stream) == stream.pos

seek(stream, position) ==
    IF stream.err # NoError THEN stream ELSE [stream EXCEPT !.pos = position]

(* Bytes written at the position replace what is there and extend the     *)
(* file past its end; a gap left by a seek past the end reads as zeros.    *)
stream_write(stream, b) ==
    IF stream.err # NoError THEN stream
    ELSE LET end == stream.pos + Len(b)
             before == IF stream.pos <= Len(stream.data)
                       THEN SubSeq(stream.data, 1, stream.pos)
                       ELSE stream.data \o [i \in 1..(stream.pos - Len(stream.data)) |-> 0]
             after == SubSeq(stream.data, end + 1, Len(stream.data))
         IN [stream EXCEPT !.data = before \o b \o after, !.pos = end]

(* self_documenting_struct: fixed-width little-endian integers.  A value   *)
(* that is None, or outside the range of its type, cannot be packed.       *)

Bytes(type) ==
    CASE type = "uint32_le" -> 4
      [] type = "int32_le" -> 4
      [] type = "uint16_le" -> 2
      [] type = "int16_le" -> 2

(* The model's integers are all within -2^31 .. 2^31 - 1, so the 32-bit    *)
(* types only have their lower limit to check.                             *)
InRange(type, v) ==
    CASE type = "uint32_le" -> 0 <= v
      [] type = "int32_le" -> TRUE
      [] type = "uint16_le" -> 0 <= v /\ v < 2 ^ 16
      [] type = "int16_le" -> -(2 ^ 15) <= v /\ v < 2 ^ 15

(* Least significant byte first; a negative value in two's complement      *)
(* (\div rounds down and % is never negative).                             *)
RECURSIVE little_endian(_, _)
little_endian(v, nbytes) ==
    IF nbytes = 0 THEN <<>>
    ELSE <<v % 256>> \o little_endian(v \div 256, nbytes - 1)

(* One field: its bytes, or None when it cannot be packed. *)
pack(type, value) ==
    IF IsNone(value) THEN None
    ELSE IF ~InRange(type, Val(value)) THEN None
    ELSE Some(little_endian(Val(value), Bytes(type)))

RECURSIVE pack_fields(_)
pack_fields(fields) ==
    IF fields = <<>> THEN Some(<<>>)
    ELSE LET first == pack(fields[1][1], fields[1][2])
             rest == pack_fields(Tail(fields))
         IN IF IsNone(first) \/ IsNone(rest) THEN None
            ELSE Some(Val(first) \o Val(rest))

(* struct.pack.from_list(fields, into = stream). *)
from_list(fields, stream) ==
    LET packed == pack_fields(fields)
    IN IF IsNone(packed) THEN raise(stream, "struct.error")
       ELSE stream_write(stream, Val(packed))

(* struct.pack.uint32_le(value, into = stream). *)
uint32_le(value, stream) == from_list(<< <<"uint32_le", Some(value)>> >>, stream)

-----------------------------------------------------------------------------
(* The header classes.  Only the attributes the AviFile assigns are kept   *)
(* per instance; the others are the class-level defaults.                  *)

MICROSECONDS_PER_SECOND == 1000000
BitmapInfo_STRUCTURE_SIZE == 40
total_frames == 0
stream_count == 1

(* MICROSECONDS_PER_SECOND // frames_per_second, rounded up instead. *)
micro_seconds_per_frame_rounded_up(frames_per_second) ==
    (1000000 + frames_per_second - 1) \div frames_per_second

(* MICROSECONDS_PER_SECOND // frames_per_second: floor division. *)
micro_seconds_per_frame(frames_per_second) ==
    MICROSECONDS_PER_SECOND \div frames_per_second

new_AviMainHeader ==
    [micro_seconds_per_frame |-> None, total_frames |-> total_frames,
     width |-> None, height |-> None]

new_AviStreamHeader == [stream_type |-> None, rate |-> None, stream_size |-> 0]

(* A bitmap header object kept from the previous initialization, where    *)
(* there was one, instead of a new BitmapInfo().                           *)
kept_BitmapInfo ==
    IF bitmap_header = NoAttr
    THEN [width |-> None, height |-> None, bits_per_pixel |-> None, palette |-> None]
    ELSE Val(bitmap_header)

new_BitmapInfo ==
    [width |-> None, height |-> None, bits_per_pixel |-> None, palette |-> None]

new_PcmWaveFormatEx ==
    [channel_count |-> None, samples_per_second |-> None, bits_per_sample |-> None]

AviMainHeader_encode(self, stream) ==
    from_list(<< <<"uint32_le", self.micro_seconds_per_frame>>,
                 <<"uint32_le", Some(0)>>,      \* max_bytes_per_second
                 <<"uint32_le", Some(1)>>,      \* padding_in_bytes
                 <<"uint32_le", Some(0)>>,      \* flags
                 <<"uint32_le", Some(self.total_frames)>>,
                 <<"uint32_le", Some(0)>>,      \* initial_frames
                 <<"uint32_le", Some(stream_count)>>,
                 <<"uint32_le", Some(0)>>,      \* suggested_buffer_size
                 <<"int32_le", self.width>>,
                 <<"int32_le", self.height>>,
                 <<"uint32_le", Some(0)>>,      \* reserved[0..3]
                 <<"uint32_le", Some(0)>>,
                 <<"uint32_le", Some(0)>>,
                 <<"uint32_le", Some(0)>> >>, stream)

(* A bitmap header that would leave its palette out. *)
BitmapInfo_encode_without_palette(self, stream) ==
    from_list(<< <<"uint32_le", Some(BitmapInfo_STRUCTURE_SIZE)>>,
                 <<"int32_le", self.width>>,
                 <<"int32_le", self.height>>,
                 <<"uint16_le", Some(1)>>,
                 <<"uint16_le", self.bits_per_pixel>>,
                 <<"uint32_le", Some(0)>>,
                 <<"uint32_le", Some(0)>>,
                 <<"uint32_le", Some(0)>>,
                 <<"uint32_le", Some(0)>>,
                 <<"uint32_le", Some(0)>>,
                 <<"uint32_le", Some(0)>> >>,
              stream)

BitmapInfo_encode(self, stream) ==
    LET fixed == from_list(
                    << <<"uint32_le", Some(BitmapInfo_STRUCTURE_SIZE)>>,
                       <<"int32_le", self.width>>,
                       <<"int32_le", self.height>>,
                       <<"uint16_le", Some(1)>>,    \* planes
                       <<"uint16_le", self.bits_per_pixel>>,
                       <<"uint32_le", Some(0)>>,    \* compression
                       <<"uint32_le", Some(0)>>,    \* image_length
                       <<"uint32_le", Some(0)>>,    \* horizontal_resolution
                       <<"uint32_le", Some(0)>>,    \* vertical_resolution
                       <<"uint32_le", Some(0)>>,    \* used_colors
                       <<"uint32_le", Some(0)>> >>, \* important_colors
                    stream)
    IN IF ~IsNone(self.palette) /\ Val(self.palette) # <<>>
       THEN stream_write(fixed, Val(self.palette))
       ELSE fixed

(* A block alignment counted in bytes rather than bits. *)
block_alignment_in_bytes(self) ==
    IF IsNone(self.channel_count) \/ IsNone(self.bits_per_sample) THEN None
    ELSE Some((Val(self.channel_count) * Val(self.bits_per_sample)) \div 8)

(* The two properties of PcmWaveFormatEx; a None operand raises TypeError. *)
block_alignment(self) ==
    IF IsNone(self.channel_count) \/ IsNone(self.bits_per_sample) THEN None
    ELSE Some(Val(self.channel_count) * Val(self.bits_per_sample))

average_bytes_per_second_transfer_rate(self) ==
    IF IsNone(self.samples_per_second) \/ IsNone(block_alignment(self)) THEN None
    ELSE Some(Val(self.samples_per_second) * Val(block_alignment(self)))

(* The 16-byte PCMWAVEFORMAT, without additional_information_size. *)
PcmWaveFormat_encode(self, stream) ==
    IF IsNone(average_bytes_per_second_transfer_rate(self))
    THEN raise(stream, "TypeError")
    ELSE from_list(<< <<"uint16_le", Some(1)>>,
                      <<"uint16_le", self.channel_count>>,
                      <<"uint32_le", self.samples_per_second>>,
                      <<"uint32_le", average_bytes_per_second_transfer_rate(self)>>,
                      <<"uint16_le", block_alignment(self)>>,
                      <<"uint16_le", self.bits_per_sample>> >>,
                   stream)

PcmWaveFormatEx_encode(self, stream) ==
    IF IsNone(average_bytes_per_second_transfer_rate(self))
    THEN raise(stream, "TypeError")
    ELSE from_list(<< <<"uint16_le", Some(1)>>,     \* format_tag
                      <<"uint16_le", self.channel_count>>,
                      <<"uint32_le", self.samples_per_second>>,
                      <<"uint32_le", average_bytes_per_second_transfer_rate(self)>>,
                      <<"uint16_le", block_alignment(self)>>,
                      <<"uint16_le", self.bits_per_sample>>,
                      <<"uint16_le", Some(0)>> >>,  \* additional_information_size
                   stream)

AviStreamHeader_encode(self, stream) ==
    LET typed == stream_write(stream_write(stream, Val(self.stream_type)),
                              stream_data_handler)
    IN from_list(<< <<"uint32_le", Some(0)>>,       \* flags
                    <<"uint16_le", Some(0)>>,       \* priority
                    <<"uint16_le", Some(0)>>,       \* language
                    <<"uint32_le", Some(0)>>,       \* frames_before_this_stream
                    <<"uint32_le", Some(1)>>,       \* scale
                    <<"uint32_le", self.rate>>,
                    <<"uint32_le", Some(0)>>,       \* start_time
                    <<"uint32_le", Some(self.stream_size)>>,
                    <<"uint32_le", Some(0)>>,       \* suggested_buffer_size
                    <<"int32_le", Some(-1)>>,       \* quality
                    <<"uint32_le", Some(0)>>,       \* sample_size
                    <<"int16_le", Some(self.stream_rectangle[1])>>,
                    <<"int16_le", Some(self.stream_rectangle[2])>>,
                    <<"int16_le", Some(self.stream_rectangle[3])>>,
                    <<"int16_le", Some(self.stream_rectangle[4])>> >>, typed)

(* chunk_data.encode(stream): dispatch on the class of the header object. *)
encode(chunk_data, stream) ==
    CASE chunk_data.class = "AviMainHeader" -> AviMainHeader_encode(chunk_data.obj, stream)
      [] chunk_data.class = "AviStreamHeader" -> AviStreamHeader_encode(chunk_data.obj, stream)
      [] chunk_data.class = "BitmapInfo" -> BitmapInfo_encode(chunk_data.obj, stream)
      [] chunk_data.class = "PcmWaveFormatEx" -> PcmWaveFormatEx_encode(chunk_data.obj, stream)

-----------------------------------------------------------------------------
(* The tree writer.  An entry of a list structure is (name, payload); the  *)
(* payload's Python type is its kind: "list" (a nested list of entries),   *)
(* "bytes", "None", or "object" (a header instance, with its class).       *)

list_entry(name, entries) == [name |-> name, kind |-> "list", body |-> entries]
bytes_entry(name, b) == [name |-> name, kind |-> "bytes", body |-> b]
none_entry(name) == [name |-> name, kind |-> "None", body |-> <<>>]
object_entry(name, class, obj) ==
    [name |-> name, kind |-> "object", body |-> [class |-> class, obj |-> obj]]

(* (name, header) where the header attribute may hold None. *)
header_entry(name, class, attr) ==
    IF IsNone(attr) THEN none_entry(name) ELSE object_entry(name, class, Val(attr))

(* An AviStreamHeader instance as its encode sees it: an attribute the     *)
(* instance does not hold itself, stream_rectangle, is the class's.        *)
stream_header_entry(name, attr) ==
    IF IsNone(attr) THEN none_entry(name)
    ELSE object_entry(name, "AviStreamHeader",
            [stream_type |-> Val(attr).stream_type, rate |-> Val(attr).rate,
             stream_size |-> Val(attr).stream_size,
             stream_rectangle |-> stream_rectangle])

(* A measure that would count the size field itself: the sizes of section  *)
(* "RIFF tree" rule it out.                                                *)
list_size_from_size_pointer(position, size_pointer, content_start_pointer) ==
    position - size_pointer

(* list_size = stream.tell() - content_start_pointer, in _write_list. *)
list_size(position, size_pointer, content_start_pointer) ==
    position - content_start_pointer

(* A header chunk size that would count its own size field. *)
chunk_size_from_size_pointer(position, size_pointer, content_start_pointer) ==
    position - size_pointer

(* The same measure taken in _write_chunk for an encoded header. *)
chunk_size(position, size_pointer, content_start_pointer) ==
    position - content_start_pointer

(* History kept beside the stream: the size placeholders written and the  *)
(* backpatches made, in the order they happened, each with the offset of   *)
(* its size field.                                                         *)
noted(stream, event, at) ==
    IF stream.err # NoError THEN stream
    ELSE [stream EXCEPT !.trace = Append(@, [event |-> event, at |-> at])]

(* stream.write(b'\x00\x00\x00\x00') at size_pointer. *)
placeholder(stream) ==
    LET size_pointer == tell(stream)
        written == stream_write(stream, <<0, 0, 0, 0>>)
    IN noted(written, "placeholder", size_pointer)

(* A backpatch that would leave the stream at the size field. *)
backpatch_without_restore(stream, size_pointer, size) ==
    LET patched == uint32_le(size, seek(stream, size_pointer))
    IN noted(patched, "backpatch", size_pointer)

(* The size is written over the placeholder and the position restored. *)
backpatch(stream, size_pointer, size) ==
    LET current_position == tell(stream)
        patched == seek(uint32_le(size, seek(stream, size_pointer)), current_position)
    IN noted(patched, "backpatch", size_pointer)

(* The word-aligned chunk of the RIFF standard, which this writer does not *)
(* produce: a zero byte after an odd payload.                              *)
write_bytes_chunk_padded(stream, chunk_name, chunk_data) ==
    LET written == stream_write(uint32_le(Len(chunk_data),
                                          stream_write(stream, chunk_name)),
                                chunk_data)
    IN IF Len(chunk_data) % 2 = 1 THEN stream_write(written, <<0>>) ELSE written

(* _write_chunk with chunk_data a bytes object. *)
write_bytes_chunk(stream, chunk_name, chunk_data) ==
    stream_write(uint32_le(Len(chunk_data), stream_write(stream, chunk_name)),
                 chunk_data)

(* A header chunk whose size would stay the placeholder. *)
write_object_chunk_unpatched(stream, chunk_name, chunk_data) ==
    LET placeheld == placeholder(stream_write(stream, chunk_name))
        encoded == encode(chunk_data, placeheld)
    IN IF placeheld.err # NoError THEN placeheld ELSE encoded

(* _write_chunk with chunk_data an object that encodes itself. *)
write_object_chunk(stream, chunk_name, chunk_data) ==
    LET named == stream_write(stream, chunk_name)
        size_pointer == tell(named)
        placeheld == placeholder(named)
        content_start_pointer == tell(placeheld)
        encoded == encode(chunk_data, placeheld)
    IN IF placeheld.err # NoError THEN placeheld
       ELSE IF encoded.err # NoError THEN encoded
       ELSE backpatch(encoded, size_pointer,
                      chunk_size(tell(encoded), size_pointer, content_start_pointer))

(* A _write_chunk that would frame a None payload as an empty chunk. *)
_write_chunk_framing_none(stream, entry) ==
    IF entry.kind = "None" THEN write_bytes_chunk(stream, entry.name, <<>>)
    ELSE IF entry.kind = "bytes" THEN write_bytes_chunk(stream, entry.name, entry.body)
    ELSE write_object_chunk(stream, entry.name, entry.body)

_write_chunk(stream, entry) ==
    IF entry.kind = "None" THEN stream
    ELSE IF entry.kind = "bytes" THEN write_bytes_chunk(stream, entry.name, entry.body)
    ELSE write_object_chunk(stream, entry.name, entry.body)

RECURSIVE _write_list(_, _, _, _)
RECURSIVE write_entries(_, _)

(* The loop over the entries of a list structure; an exception raised by   *)
(* one entry ends it.                                                      *)
write_entries(stream, list_structure) ==
    IF stream.err # NoError \/ list_structure = <<>> THEN stream
    ELSE LET entry == Head(list_structure)
             written == IF entry.kind = "list"
                        THEN _write_list(stream, entry.name, entry.body, LIST)
                        ELSE _write_chunk(stream, entry)
         IN IF written.err # NoError THEN written
            ELSE write_entries(written, Tail(list_structure))

_write_list(stream, list_name, list_structure, list_fourcc) ==
    LET tagged == stream_write(stream, list_fourcc)
        size_pointer == tell(tagged)
        placeheld == placeholder(tagged)
        content_start_pointer == tell(placeheld)
        named == stream_write(placeheld, list_name)
        filled == write_entries(named, list_structure)
    IN IF named.err # NoError THEN named
       ELSE IF filled.err # NoError THEN filled
       ELSE backpatch(filled, size_pointer,
                      list_size(tell(filled), size_pointer, content_start_pointer))

(* Chunks are (fourcc, bytes) pairs; in the movi list they are entries. *)
RECURSIVE chunk_entries(_)
chunk_entries(chunks) ==
    IF chunks = <<>> THEN <<>>
    ELSE <<bytes_entry(chunks[1][1], chunks[1][2])>> \o chunk_entries(Tail(chunks))

(* The other order: audio chunks ahead of the video chunks. *)
movi_structure_audio_first(video, audio) == chunk_entries(audio) \o chunk_entries(video)

movi_structure(video, audio) == chunk_entries(video) \o chunk_entries(audio)

hdrl_structure ==
    << header_entry(avih, "AviMainHeader", Some(main_header)),
       list_entry(strl, << stream_header_entry(strh, video_stream_header),
                           header_entry(strf, "BitmapInfo", bitmap_header) >>),
       list_entry(strl, << stream_header_entry(strh, audio_stream_header),
                           header_entry(strf, "PcmWaveFormatEx", wave_header) >>) >>

riff_structure ==
    << list_entry(AVI_, << list_entry(hdrl, hdrl_structure),
                           list_entry(movi, movi_structure(video_chunks, audio_chunks)) >>) >>

-----------------------------------------------------------------------------
(* The AviFile object and its methods. *)

returned(op, err) ==
    [op |-> op, err |-> err, file |-> None, pos |-> 0, trace |-> <<>>]

Init ==
    /\ main_header = new_AviMainHeader
    /\ audio_stream_header = None
    /\ wave_header = None
    /\ audio_chunks = <<>>
    /\ video_stream_header = None
    /\ bitmap_header = NoAttr
    /\ video_chunks = <<>>
    /\ stream_rectangle = <<0, 0, 0, 0>>
    /\ out = returned("__init__", NoError)
    /\ calls = [video |-> <<>>, audio |-> <<>>]

initialize_audio_stream(channel_count, samples_per_second, bits_per_sample) ==
    /\ audio_stream_header' =
          Some([new_AviStreamHeader EXCEPT !.stream_type = Some(AviStreamType_Audio),
                                           !.rate = Some(samples_per_second)])
    /\ wave_header' =
          Some([new_PcmWaveFormatEx EXCEPT !.channel_count = Some(channel_count),
                                           !.samples_per_second = Some(samples_per_second),
                                           !.bits_per_sample = Some(bits_per_sample)])
    /\ out' = returned("initialize_audio_stream", NoError)
    /\ UNCHANGED <<main_header, audio_chunks, video_stream_header, bitmap_header,
                   video_chunks, stream_rectangle, calls>>

(* An add_audio_chunk that would count the chunk in the audio stream       *)
(* header, as add_video_frame does for frames.                             *)
add_audio_chunk_counted(pcm) ==
    /\ Len(audio_chunks) < MaxChunks
    /\ audio_chunks' = Append(audio_chunks, <<(<<48, 49>> \o AviStreamTwoCC_Audio), pcm>>)
    /\ audio_stream_header' =
          IF IsNone(audio_stream_header) THEN audio_stream_header
          ELSE Some([Val(audio_stream_header) EXCEPT !.stream_size = @ + 1])
    /\ out' = returned("add_audio_chunk", NoError)
    /\ calls' = [calls EXCEPT !.audio = Append(@, [data |-> pcm])]
    /\ UNCHANGED <<main_header, wave_header, video_stream_header,
                   bitmap_header, video_chunks, stream_rectangle>>

add_audio_chunk(pcm) ==
    /\ Len(audio_chunks) < MaxChunks
    /\ audio_chunks' = Append(audio_chunks, <<(<<48, 49>> \o AviStreamTwoCC_Audio), pcm>>)
    /\ out' = returned("add_audio_chunk", NoError)
    /\ calls' = [calls EXCEPT !.audio = Append(@, [data |-> pcm])]
    /\ UNCHANGED <<main_header, audio_stream_header, wave_header, video_stream_header,
                   bitmap_header, video_chunks, stream_rectangle>>

initialize_video_stream(width, height, frames_per_second, bits_per_pixel, palette) ==
    /\ video_stream_header' =
          Some([new_AviStreamHeader EXCEPT !.stream_type = Some(AviStreamType_Video),
                                           !.rate = Some(frames_per_second),
                                           !.stream_size = 0])
    /\ stream_rectangle' = [stream_rectangle EXCEPT ![3] = width, ![4] = -height]
    /\ bitmap_header' =
          Some([new_BitmapInfo EXCEPT !.width = Some(width),
                                      !.height = Some(-height),
                                      !.bits_per_pixel = Some(bits_per_pixel),
                                      !.palette = IF IsNone(palette) THEN @ ELSE palette])
    /\ IF frames_per_second = 0
       THEN /\ out' = returned("initialize_video_stream", "ZeroDivisionError")
            /\ UNCHANGED main_header
       ELSE /\ main_header' =
                  [main_header EXCEPT
                      !.micro_seconds_per_frame =
                          Some(micro_seconds_per_frame(frames_per_second)),
                      !.width = Some(width),
                      !.height = Some(-height)]
            /\ out' = returned("initialize_video_stream", NoError)
    /\ UNCHANGED <<audio_stream_header, wave_header, audio_chunks, video_chunks, calls>>

(* An add_video_frame that would not count the frame. *)
add_video_frame_uncounted(bitmap) ==
    /\ Len(video_chunks) < MaxFrames
    /\ video_chunks' =
          Append(video_chunks, <<(<<48, 48>> \o AviStreamTwoCC_UncompressedVideo), bitmap>>)
    /\ out' = returned("add_video_frame",
                       IF IsNone(video_stream_header) THEN "AttributeError" ELSE NoError)
    /\ calls' = [calls EXCEPT !.video =
                    Append(@, [data |-> bitmap,
                               initialized |-> ~IsNone(video_stream_header)])]
    /\ UNCHANGED <<main_header, audio_stream_header, wave_header, audio_chunks,
                   video_stream_header, bitmap_header, stream_rectangle>>

(* An add_video_frame that would also count the frame in the main header's *)
(* total_frames.                                                           *)
add_video_frame_counting_total(bitmap) ==
    /\ Len(video_chunks) < MaxFrames
    /\ video_chunks' =
          Append(video_chunks, <<(<<48, 48>> \o AviStreamTwoCC_UncompressedVideo), bitmap>>)
    /\ IF IsNone(video_stream_header)
       THEN /\ out' = returned("add_video_frame", "AttributeError")
            /\ UNCHANGED <<video_stream_header, main_header>>
       ELSE /\ video_stream_header' =
                  Some([Val(video_stream_header) EXCEPT !.stream_size = @ + 1])
            /\ main_header' = [main_header EXCEPT !.total_frames = @ + 1]
            /\ out' = returned("add_video_frame", NoError)
    /\ calls' = [calls EXCEPT !.video =
                    Append(@, [data |-> bitmap,
                               initialized |-> ~IsNone(video_stream_header)])]
    /\ UNCHANGED <<audio_stream_header, wave_header, audio_chunks,
                   bitmap_header, stream_rectangle>>

(* An add_video_frame that would skip the frame count of a missing header  *)
(* and return normally.                                                    *)
add_video_frame_unchecked(bitmap) ==
    /\ Len(video_chunks) < MaxFrames
    /\ video_chunks' =
          Append(video_chunks, <<(<<48, 48>> \o AviStreamTwoCC_UncompressedVideo), bitmap>>)
    /\ video_stream_header' =
          IF IsNone(video_stream_header) THEN video_stream_header
          ELSE Some([Val(video_stream_header) EXCEPT !.stream_size = @ + 1])
    /\ out' = returned("add_video_frame", NoError)
    /\ calls' = [calls EXCEPT !.video =
                    Append(@, [data |-> bitmap,
                               initialized |-> ~IsNone(video_stream_header)])]
    /\ UNCHANGED <<main_header, audio_stream_header, wave_header, audio_chunks,
                   bitmap_header, stream_rectangle>>

add_video_frame(bitmap) ==
    /\ Len(video_chunks) < MaxFrames
    /\ video_chunks' =
          Append(video_chunks, <<(<<48, 48>> \o AviStreamTwoCC_UncompressedVideo), bitmap>>)
    /\ IF IsNone(video_stream_header)
       THEN /\ out' = returned("add_video_frame", "AttributeError")
            /\ UNCHANGED video_stream_header
       ELSE /\ video_stream_header' =
                  Some([Val(video_stream_header) EXCEPT !.stream_size = @ + 1])
            /\ out' = returned("add_video_frame", NoError)
    /\ calls' = [calls EXCEPT !.video =
                    Append(@, [data |-> bitmap,
                               initialized |-> ~IsNone(video_stream_header)])]
    /\ UNCHANGED <<main_header, audio_stream_header, wave_header, audio_chunks,
                   bitmap_header, stream_rectangle>>

(* A write that would start the frame count afresh once the file is out. *)
write_resetting_count ==
    /\ IF bitmap_header = NoAttr
       THEN /\ out' = returned("write", "AttributeError")
            /\ UNCHANGED video_stream_header
       ELSE \E avi_file \in {_write_list(open_wb, AVI_, riff_structure, RIFF)} :
               /\ out' = [op |-> "write", err |-> avi_file.err,
                          file |-> Some(avi_file.data), pos |-> avi_file.pos,
                          trace |-> avi_file.trace]
               /\ video_stream_header' =
                     Some([Val(video_stream_header) EXCEPT !.stream_size = 0])
    /\ UNCHANGED <<main_header, audio_stream_header, wave_header, audio_chunks,
                   bitmap_header, video_chunks, stream_rectangle, calls>>

(* write(filepath): building riff_structure reads self.bitmap_header, an   *)
(* attribute __init__ does not create; the file is opened only after that. *)
write ==
    /\ IF bitmap_header = NoAttr
       THEN out' = returned("write", "AttributeError")
       ELSE \E avi_file \in {_write_list(open_wb, AVI_, riff_structure, RIFF)} :
               out' = [op |-> "write", err |-> avi_file.err,
                       file |-> Some(avi_file.data), pos |-> avi_file.pos,
                       trace |-> avi_file.trace]
    /\ UNCHANGED <<main_header, audio_stream_header, wave_header, audio_chunks,
                   video_stream_header, bitmap_header, video_chunks, stream_rectangle,
                   calls>>

InitializeAudioStream ==
    \E p \in AudioParams :
        initialize_audio_stream(p.channel_count, p.samples_per_second, p.bits_per_sample)

AddAudioChunk == \E pcm \in PcmValues : add_audio_chunk(pcm)

InitializeVideoStream ==
    \E p \in VideoParams :
        initialize_video_stream(p.width, p.height, p.frames_per_second,
                                p.bits_per_pixel, p.palette)

AddVideoFrame == \E bitmap \in FrameValues : add_video_frame(bitmap)

Write == write

Next ==
    \/ InitializeAudioStream
    \/ AddAudioChunk
    \/ InitializeVideoStream
    \/ AddVideoFrame
    \/ Write

Spec == Init /\ [][Next]_vars

(* A second AviFile object in the same process.  Its attributes are its    *)
(* own and nothing here reads them; what it shares with this object is the *)
(* class attribute AviStreamHeader.stream_rectangle, which its             *)
(* initialize_video_stream assigns into at lines 107-108 before anything   *)
(* in the call can fail.                                                   *)
AnotherVideoParams ==
    { [width |-> 6, height |-> 5, frames_per_second |-> 30, bits_per_pixel |-> 8,
       palette |-> None] }

another_initialize_video_stream(width, height, frames_per_second, bits_per_pixel, palette) ==
    /\ stream_rectangle' = [stream_rectangle EXCEPT ![3] = width, ![4] = -height]
    /\ out' = returned("another.initialize_video_stream",
                       IF frames_per_second = 0 THEN "ZeroDivisionError" ELSE NoError)
    /\ UNCHANGED <<main_header, audio_stream_header, wave_header, audio_chunks,
                   video_stream_header, bitmap_header, video_chunks, calls>>

AnotherInitializeVideoStream ==
    \E p \in AnotherVideoParams :
        another_initialize_video_stream(p.width, p.height, p.frames_per_second,
                                        p.bits_per_pixel, p.palette)

NextTwoInstances ==
    \/ Next
    \/ AnotherInitializeVideoStream

SpecTwoInstances == Init /\ [][NextTwoInstances]_vars

-----------------------------------------------------------------------------
(* A standalone reader of the written bytes: it walks tags and sizes and   *)
(* knows nothing of how the file was composed.  Offsets count from 0.      *)

(* A size whose top byte is 64 or more is beyond any file of the model and  *)
(* reads as 2^30.                                                          *)
U32(b, at) ==
    IF b[at + 4] >= 64 THEN 1073741824
    ELSE b[at + 1] + 256 * b[at + 2] + 65536 * b[at + 3] + 16777216 * b[at + 4]

FourCC(b, at) == SubSeq(b, at + 1, at + 4)

BadNode(at) ==
    [kind |-> "bad", tag |-> <<>>, size |-> 0, name |-> <<>>, at |-> at,
     payload |-> <<>>, children |-> <<>>]

(* The nodes that tile the bytes from..to: a chunk is tag, size, payload;  *)
(* a RIFF or LIST node is tag, size, name and the nodes tiling the rest of *)
(* its size.  A node that overruns its region is bad and ends the walk.    *)
RECURSIVE Nodes(_, _, _)
Nodes(b, from, to) ==
    IF from = to THEN <<>>
    ELSE IF from + 8 > to THEN <<BadNode(from)>>
    ELSE LET tag == FourCC(b, from)
             size == U32(b, from + 4)
             end == from + 8 + size
         IN IF end > to THEN <<BadNode(from)>>
            ELSE IF tag \in {RIFF, LIST}
            THEN IF size < 4 THEN <<BadNode(from)>>
                 ELSE << [kind |-> "list", tag |-> tag, size |-> size,
                          name |-> FourCC(b, from + 8), at |-> from,
                          payload |-> <<>>,
                          children |-> Nodes(b, from + 12, end)] >>
                      \o Nodes(b, end, to)
            ELSE << [kind |-> "chunk", tag |-> tag, size |-> size, name |-> <<>>,
                     at |-> from, payload |-> SubSeq(b, from + 9, end),
                     children |-> <<>>] >>
                 \o Nodes(b, end, to)

RECURSIVE WellFramed(_)
WellFramed(nodes) ==
    \A i \in 1..Len(nodes) :
        nodes[i].kind # "bad" /\ WellFramed(nodes[i].children)

(* The framed length of a node: 8 + its recorded size. *)
Framed(node) == 8 + node.size

RECURSIVE SumFramed(_)
SumFramed(nodes) ==
    IF nodes = <<>> THEN 0 ELSE Framed(nodes[1]) + SumFramed(Tail(nodes))

(* Every list, at every depth, records 4 + the framed lengths of its children. *)
RECURSIVE ListSizesAddUp(_)
ListSizesAddUp(nodes) ==
    \A i \in 1..Len(nodes) :
        nodes[i].kind = "list" =>
            /\ nodes[i].size = 4 + SumFramed(nodes[i].children)
            /\ ListSizesAddUp(nodes[i].children)

(* Tags and nesting only. *)
RECURSIVE Shape(_)
Shape(nodes) ==
    [i \in 1..Len(nodes) |->
        IF nodes[i].kind = "list"
        THEN [kind |-> "list", name |-> nodes[i].name, children |-> Shape(nodes[i].children)]
        ELSE [kind |-> nodes[i].kind, name |-> nodes[i].tag, children |-> <<>>]]

(* The tags and nesting of the entries handed to the writer that are not   *)
(* None: the nodes it emits.                                               *)
RECURSIVE SelectEmitted(_)
RECURSIVE EmittedShape(_)
SelectEmitted(entries) ==
    IF entries = <<>> THEN <<>>
    ELSE (IF entries[1].kind = "None" THEN <<>> ELSE <<entries[1]>>)
         \o SelectEmitted(Tail(entries))

EmittedShape(entries) ==
    LET kept == SelectEmitted(entries)
    IN [i \in 1..Len(kept) |->
          IF kept[i].kind = "list"
          THEN [kind |-> "list", name |-> kept[i].name,
                children |-> EmittedShape(kept[i].body)]
          ELSE [kind |-> "chunk", name |-> kept[i].name, children |-> <<>>]]

(* The file of the most recent call, when that call was a write that returned. *)
Written == out.op = "write" /\ out.err = NoError
File == Val(out.file)
Tree == Nodes(File, 0, Len(File))

(* The RIFF root holds LIST 'AVI ', which holds LIST 'hdrl' (avih and two  *)
(* LIST 'strl') and LIST 'movi'.                                            *)
IsList(node, name) == node.kind = "list" /\ node.name = name
IsChunk(node, tag) == node.kind = "chunk" /\ node.tag = tag

Canonical(t) ==
    /\ WellFramed(t)
    /\ Len(t) = 1 /\ t[1].tag = RIFF /\ IsList(t[1], AVI_)
    /\ Len(t[1].children) = 1 /\ IsList(t[1].children[1], AVI_)
    /\ Len(t[1].children[1].children) = 2
    /\ IsList(t[1].children[1].children[1], hdrl)
    /\ IsList(t[1].children[1].children[2], movi)

Hdrl(t) == t[1].children[1].children[1]
Movi(t) == t[1].children[1].children[2]

Tagged(nodes, tag) == SelectSeq(nodes, LAMBDA n : IsChunk(n, tag))
Lists(nodes, name) == SelectSeq(nodes, LAMBDA n : IsList(n, name))

(* The strl list whose strh names the stream type. *)
StrlOf(t, stream_type) ==
    SelectSeq(Lists(Hdrl(t).children, strl),
              LAMBDA l : \E i \in 1..Len(l.children) :
                            /\ IsChunk(l.children[i], strh)
                            /\ Len(l.children[i].payload) >= 4
                            /\ SubSeq(l.children[i].payload, 1, 4) = stream_type)

VideoConfigured == ~IsNone(video_stream_header)
AudioConfigured == ~IsNone(audio_stream_header)

HasOddChunk(chunks) == \E i \in 1..Len(chunks) : Len(chunks[i][2]) % 2 = 1

-----------------------------------------------------------------------------
(* C1: in the bytes write produces, every list (the RIFF root and each     *)
(* LIST at every depth) records a size of 4 plus the framed lengths (8 +   *)
(* recorded size) of the children emitted for it; the RIFF size is the     *)
(* length of the file minus 8.                                             *)
C1_ListSizes ==
    Written =>
        \A t \in {Tree} :
            /\ WellFramed(t)
            /\ Len(t) = 1 /\ t[1].kind = "list" /\ t[1].tag = RIFF
            /\ t[1].size = Len(File) - 8
            /\ ListSizesAddUp(t)
            /\ Shape(t) = << [kind |-> "list", name |-> AVI_,
                              children |-> EmittedShape(riff_structure)] >>

C1_Witness ==
    /\ Written /\ AudioConfigured
    /\ Len(video_chunks) = MaxFrames /\ Len(audio_chunks) = MaxChunks
    /\ HasOddChunk(video_chunks) /\ HasOddChunk(audio_chunks)

(* Where the i-th chunk of a list starts, counted from the list's first child. *)
RECURSIVE ChunkOffset(_, _)
ChunkOffset(chunks, i) ==
    IF i = 1 THEN 0 ELSE ChunkOffset(chunks, i - 1) + 8 + Len(chunks[i - 1][2])

(* C2: each chunk with a bytes payload of length L (the 00db and 01wb      *)
(* chunks) is its tag, L as the recorded size, and the L bytes; nothing    *)
(* pads an odd L, so the next tag starts 8 + L further on.                 *)
C2_RawChunkUnpadded ==
    Written =>
        \A t \in {Tree} : \A chunks \in {video_chunks \o audio_chunks} :
            /\ Canonical(t)
            /\ Len(Movi(t).children) = Len(chunks)
            /\ \A i \in 1..Len(chunks) :
                  LET node == Movi(t).children[i]
                  IN /\ IsChunk(node, chunks[i][1])
                     /\ node.size = Len(chunks[i][2])
                     /\ node.payload = chunks[i][2]
                     /\ node.at = Movi(t).at + 12 + ChunkOffset(chunks, i)
            /\ Movi(t).at + 12 + ChunkOffset(chunks, Len(chunks) + 1) = Len(File)

C2_Witness ==
    /\ Written
    /\ Len(video_chunks) >= 2 /\ Len(video_chunks[1][2]) % 2 = 1
    /\ Len(audio_chunks) >= 2 /\ Len(audio_chunks[1][2]) % 2 = 1

NoBytes(b, fourcc) == \A i \in 1..Len(b) : i + 3 <= Len(b) => SubSeq(b, i, i + 3) # fourcc

(* C3: with the audio stream never initialized and no audio chunk added,   *)
(* the file holds no 'auds' stream header and hdrl holds exactly one strl  *)
(* list: no strl list is written for the audio stream, not even an empty   *)
(* one.                                                                    *)
C3_AudioStrlOmitted ==
    (Written /\ ~AudioConfigured /\ audio_chunks = <<>>) =>
        \A t \in {Tree} :
            /\ Canonical(t)
            /\ NoBytes(File, AviStreamType_Audio)
            /\ Len(Lists(Hdrl(t).children, strl)) = 1

(* The strf chunks of the audio strl list. *)
AudioStrf(t) ==
    IF Len(StrlOf(t, AviStreamType_Audio)) = 1
    THEN Tagged(StrlOf(t, AviStreamType_Audio)[1].children, strf)
    ELSE <<>>

VideoStrf(t) ==
    IF Len(StrlOf(t, AviStreamType_Video)) = 1
    THEN Tagged(StrlOf(t, AviStreamType_Video)[1].children, strf)
    ELSE <<>>

WaveFormatSize(n) ==
    (Written /\ AudioConfigured) =>
        \A t \in {Tree} :
            /\ Canonical(t)
            /\ Len(AudioStrf(t)) = 1
            /\ AudioStrf(t)[1].size = n
            /\ Len(AudioStrf(t)[1].payload) = n

(* C4, as claimed: the audio strf chunk records size 16 and holds 16 bytes. *)
C4_WaveFormat16 == WaveFormatSize(16)

(* C4, amended: the audio strf chunk records size 18 and holds 18 bytes:   *)
(* the seven fields of the rendered wave format are 2+2+4+4+2+2+2 bytes.   *)
C4_WaveFormat18 == WaveFormatSize(18)

C4_Witness ==
    /\ Written /\ AudioConfigured
    /\ Val(wave_header).channel_count = Some(2)
    /\ Val(wave_header).bits_per_sample = Some(16)

(* The palette bytes of the bitmap header: none when it is None. *)
PaletteBytes == IF IsNone(Val(bitmap_header).palette) THEN <<>> ELSE Val(Val(bitmap_header).palette)

(* C5: in every file written, avih records size 56, every strh records     *)
(* size 56, and the video strf records 40 + len(palette), the palette      *)
(* bytes following the 40 fixed bytes directly.                            *)
C5_HeaderSizes ==
    Written =>
        \A t \in {Tree} :
            /\ Canonical(t)
            /\ Len(Tagged(Hdrl(t).children, avih)) = 1
            /\ Tagged(Hdrl(t).children, avih)[1].size = 56
            /\ Hdrl(t).children[1].tag = avih
            /\ \A i \in 1..Len(Lists(Hdrl(t).children, strl)) :
                  \A j \in 1..Len(Lists(Hdrl(t).children, strl)[i].children) :
                      LET node == Lists(Hdrl(t).children, strl)[i].children[j]
                      IN IsChunk(node, strh) => node.size = 56 /\ Len(node.payload) = 56
            /\ Len(StrlOf(t, AviStreamType_Video)) = 1
            /\ Len(VideoStrf(t)) = 1
            /\ VideoStrf(t)[1].size = 40 + Len(PaletteBytes)
            /\ U32(VideoStrf(t)[1].payload, 0) = 40
            /\ SubSeq(VideoStrf(t)[1].payload, 41, VideoStrf(t)[1].size) = PaletteBytes

C5_Witness ==
    /\ Written /\ AudioConfigured
    /\ Len(PaletteBytes) = 3

(* C6: initialize_video_stream fails with InvalidDimensions whenever width *)
(* <= 0 or height <= 0, and then no video stream becomes configured.       *)
C6_InvalidDimensions ==
    [][\A p \in VideoParams :
          (/\ initialize_video_stream(p.width, p.height, p.frames_per_second,
                                      p.bits_per_pixel, p.palette)
           /\ (p.width <= 0 \/ p.height <= 0))
          => (out'.err = "InvalidDimensions" /\ IsNone(video_stream_header'))]_vars

(* The last add_video_frame call found the video stream uninitialized. *)
FrameAddedUninitialized ==
    /\ out.op = "add_video_frame"
    /\ ~calls.video[Len(calls.video)].initialized

(* C7: add_video_frame on a container whose video stream was never         *)
(* initialized fails at that call (AttributeError on the None header is    *)
(* the failure the text names UninitializedStream).                        *)
C7_FrameNeedsVideoStream == FrameAddedUninitialized => out.err = "AttributeError"

C7_Witness == FrameAddedUninitialized /\ Len(calls.video) = 2

(* C8: add_audio_chunk before initialize_audio_stream fails at that call,  *)
(* so no written file holds 01wb chunks in movi without an audio strl list *)
(* that describes them.                                                    *)
C8_AudioChunkNeedsStream ==
    /\ (out.op = "add_audio_chunk" /\ ~AudioConfigured) => out.err # NoError
    /\ Written =>
          \A t \in {Tree} :
              /\ Canonical(t)
              /\ Tagged(Movi(t).children, <<48, 49>> \o AviStreamTwoCC_Audio) # <<>>
                    => Len(StrlOf(t, AviStreamType_Audio)) = 1

(* C9: write on a container whose video stream was never initialized fails *)
(* while rendering a header, the file being open by then, and never        *)
(* returns successfully.                                                   *)
C9_IncompleteHeaderAtRender ==
    (out.op = "write" /\ bitmap_header = NoAttr) =>
        /\ out.err \in {"struct.error", "TypeError"}
        /\ ~IsNone(out.file)

(* The chunk a call leaves in movi. *)
CallChunks(log, tag) == [i \in 1..Len(log) |-> [tag |-> tag, payload |-> log[i].data]]

AllFramesInitialized == \A i \in 1..Len(calls.video) : calls.video[i].initialized

(* C10: on an initialized container, movi holds exactly one chunk per      *)
(* add_video_frame and add_audio_chunk call: the video chunks, tagged      *)
(* 00db, in call order, then the audio chunks, tagged 01wb, in call order, *)
(* each with the bytes passed to its call.                                 *)
C10_MoviInCallOrder ==
    (Written /\ AllFramesInitialized) =>
        \A t \in {Tree} :
            /\ Canonical(t)
            /\ \A kids \in {Movi(t).children} :
                  /\ \A i \in 1..Len(kids) : kids[i].kind = "chunk"
                  /\ [i \in 1..Len(kids) |-> [tag |-> kids[i].tag, payload |-> kids[i].payload]]
                       = CallChunks(calls.video, <<48, 48, 100, 98>>)
                            \o CallChunks(calls.audio, <<48, 49, 119, 98>>)

C10_Witness ==
    /\ Written /\ AllFramesInitialized /\ AudioConfigured
    /\ Len(calls.video) = 2 /\ calls.video[1].data # calls.video[2].data
    /\ Len(calls.audio) = 2 /\ calls.audio[1].data # calls.audio[2].data

(* A strl list that holds the strh of the given stream type, then a strf. *)
StrlHolds(list, stream_type) ==
    /\ IsList(list, strl)
    /\ Len(list.children) = 2
    /\ IsChunk(list.children[1], strh)
    /\ Len(list.children[1].payload) >= 4
    /\ SubSeq(list.children[1].payload, 1, 4) = stream_type
    /\ IsChunk(list.children[2], strf)

(* hdrl (avih, the video strl, the audio strl), then movi. *)
HdrlThenMovi(nodes) ==
    /\ Len(nodes) = 2
    /\ IsList(nodes[1], hdrl) /\ IsList(nodes[2], movi)
    /\ Len(nodes[1].children) = 3
    /\ IsChunk(nodes[1].children[1], avih)
    /\ StrlHolds(nodes[1].children[2], AviStreamType_Video)
    /\ StrlHolds(nodes[1].children[3], AviStreamType_Audio)

(* C11: with both streams initialized, the nodes written are, in order,    *)
(* RIFF 'AVI ', then LIST hdrl holding avih, the strl of the video stream  *)
(* (strh 'vids', strf) and the strl of the audio stream (strh 'auds',      *)
(* strf), then LIST movi, whatever the order of initialization.            *)
C11_NodeOrder ==
    (Written /\ VideoConfigured /\ AudioConfigured) =>
        \A t \in {Tree} :
            /\ WellFramed(t)
            /\ Len(t) = 1 /\ t[1].tag = RIFF /\ IsList(t[1], AVI_)
            /\ HdrlThenMovi(t[1].children)

(* C12: each add_video_frame that returns normally appends one chunk       *)
(* ('00db', the frame bytes) at the end of video_chunks and adds exactly 1 *)
(* to the video stream header's stream_size; the audio chunks, the audio   *)
(* headers and the earlier video chunks stay as they were.                 *)
C12_FrameAppendedAndCounted ==
    [][(Len(calls'.video) = Len(calls.video) + 1 /\ out'.err = NoError) =>
          /\ video_chunks' =
                Append(video_chunks,
                       << <<48, 48, 100, 98>>, calls'.video[Len(calls'.video)].data >>)
          /\ ~IsNone(video_stream_header) /\ ~IsNone(video_stream_header')
          /\ Val(video_stream_header').stream_size
                = Val(video_stream_header).stream_size + 1
          /\ UNCHANGED <<audio_chunks, audio_stream_header, wave_header>>]_vars

C12_Witness ==
    /\ out.op = "add_video_frame" /\ out.err = NoError
    /\ Len(video_chunks) = 2 /\ Val(video_stream_header).stream_size = 2
    /\ AudioConfigured /\ audio_chunks # <<>>

(* C13: add_audio_chunk appends one chunk ('01wb', the pcm bytes) at the   *)
(* end of audio_chunks and changes nothing else: the audio stream header's *)
(* stream_size stays 0, its initial value, and the video chunks and the    *)
(* video frame counter are untouched.                                      *)
C13_AudioChunkAppendedOnly ==
    [][Len(calls'.audio) = Len(calls.audio) + 1 =>
          /\ out'.err = NoError
          /\ audio_chunks' =
                Append(audio_chunks,
                       << <<48, 49, 119, 98>>, calls'.audio[Len(calls'.audio)].data >>)
          /\ AudioConfigured => Val(audio_stream_header').stream_size = 0
          /\ UNCHANGED <<main_header, audio_stream_header, wave_header,
                         video_stream_header, bitmap_header, video_chunks,
                         stream_rectangle>>]_vars

C13_Witness ==
    /\ out.op = "add_audio_chunk"
    /\ Len(audio_chunks) = 2 /\ AudioConfigured
    /\ VideoConfigured /\ Val(video_stream_header).stream_size >= 1

(* The signed 32-bit little-endian integer at an offset of a payload. *)
S32(b, at) ==
    b[at + 1] + 256 * b[at + 2] + 65536 * b[at + 3]
        + 16777216 * (IF b[at + 4] >= 128 THEN b[at + 4] - 256 ELSE b[at + 4])

Avih(t) == Tagged(Hdrl(t).children, avih)

(* The height both headers hold comes from calls with a positive height. *)
HeightsNegated ==
    /\ ~IsNone(main_header.height) /\ Val(main_header.height) < 0
    /\ bitmap_header # NoAttr /\ Val(Val(bitmap_header).height) < 0

(* C14: after initialize_video_stream with height h > 0 the main header    *)
(* and the bitmap header both hold -h; write renders that value as a       *)
(* signed 32-bit field of avih and of the video strf; and the two fields   *)
(* agree in every state from the initialization on, a second               *)
(* initialization included.                                                *)
C14_NegatedHeightAgrees ==
    /\ (out.op = "initialize_video_stream" /\ out.err = NoError /\ stream_rectangle[4] < 0)
          => /\ main_header.height = Some(stream_rectangle[4])
             /\ Val(bitmap_header).height = Some(stream_rectangle[4])
    /\ HeightsNegated => main_header.height = Val(bitmap_header).height
    /\ (Written /\ HeightsNegated) =>
          \A t \in {Tree} :
              /\ Canonical(t)
              /\ Len(Avih(t)) = 1 /\ Avih(t)[1].size = 56
              /\ S32(Avih(t)[1].payload, 36) = Val(main_header.height)
              /\ Len(VideoStrf(t)) = 1 /\ VideoStrf(t)[1].size >= 40
              /\ S32(VideoStrf(t)[1].payload, 8) = Val(Val(bitmap_header).height)

(* The last call was an initialize_video_stream that returned. *)
VideoStreamInitialized == out.op = "initialize_video_stream" /\ out.err = NoError

(* C15: initialize_video_stream with a positive fps sets the main header's *)
(* micro_seconds_per_frame to floor(1000000 / fps): the largest k with     *)
(* k * fps <= 1000000, never the next integer up; fps = 30 gives 33333.    *)
C15_FrameIntervalTruncated ==
    (VideoStreamInitialized /\ Val(Val(video_stream_header).rate) > 0) =>
        \A fps \in {Val(Val(video_stream_header).rate)} :
            /\ ~IsNone(main_header.micro_seconds_per_frame)
            /\ \A k \in {Val(main_header.micro_seconds_per_frame)} :
                  /\ k * fps <= 1000000
                  /\ 1000000 < (k + 1) * fps
                  /\ fps = 30 => k = 33333

C15_Witness ==
    /\ VideoStreamInitialized
    /\ Val(Val(video_stream_header).rate) = 60
    /\ main_header.micro_seconds_per_frame = Some(16666)

(* Everything the AviFile object holds in memory. *)
InMemory ==
    <<main_header, audio_stream_header, wave_header, audio_chunks,
      video_stream_header, bitmap_header, video_chunks, stream_rectangle>>

(* The stream a write leaves behind, given the structure it built. *)
Render(structure) == _write_list(open_wb, AVI_, structure, RIFF)

(* The structure write would have built before the last add_video_frame,   *)
(* and before the last add_audio_chunk.                                    *)
Front(seq) == SubSeq(seq, 1, Len(seq) - 1)

BeforeLastFrame ==
    [riff_structure EXCEPT
        ![1].body[2].body = movi_structure(Front(video_chunks), audio_chunks),
        ![1].body[1].body[2].body[1].body.obj.stream_size = @ - 1]

BeforeLastAudioChunk ==
    [riff_structure EXCEPT
        ![1].body[2].body = movi_structure(video_chunks, Front(audio_chunks))]

(* Where the size fields enclosing the movi chunks are, and where the      *)
(* video strh keeps stream_size (offset 32 of its payload).                *)
EnclosingSizeFields(t) == {t[1].at + 4, t[1].children[1].at + 4, Movi(t).at + 4}
StreamSizeField(t) == StrlOf(t, AviStreamType_Video)[1].children[1].at + 8 + 32

(* new is old with one chunk (tag, data) put in at offset p, the sizes     *)
(* that enclose it raised by its framed length, the fields in counters     *)
(* raised by 1, and every other byte as it was.                            *)
GrownBy(old, new, p, tag, data, sizes, counters) ==
    LET n == 8 + Len(data)
    IN /\ Len(new) = Len(old) + n
       /\ \A i \in 1..p :
             (\A f \in sizes \cup counters : i <= f \/ i > f + 4) => new[i] = old[i]
       /\ SubSeq(new, p + 1, p + 4) = tag
       /\ U32(new, p + 4) = Len(data)
       /\ SubSeq(new, p + 9, p + n) = data
       /\ SubSeq(new, p + n + 1, Len(new)) = SubSeq(old, p + 1, Len(old))
       /\ \A f \in sizes : U32(new, f) = U32(old, f) + n
       /\ \A f \in counters : U32(new, f) = U32(old, f) + 1

(* The file is the bytes of an earlier file plus one chunk. *)
GrownFrom(earlier, tag, data, counted) ==
    /\ earlier.err = NoError
    /\ \A t \in {Nodes(earlier.data, 0, Len(earlier.data))} :
          /\ Canonical(t) /\ Len(StrlOf(t, AviStreamType_Video)) = 1
          /\ GrownBy(earlier.data, File,
                     IF counted
                     THEN Movi(t).at + 12 + SumFramed(Tagged(Movi(t).children, tag))
                     ELSE Len(earlier.data),
                     tag, data, EnclosingSizeFields(t),
                     IF counted THEN {StreamSizeField(t)} ELSE {})

WrittenAfterFrame ==
    /\ Written /\ video_chunks # <<>>
    /\ Val(video_stream_header).stream_size >= 1

WrittenAfterAudioChunk == Written /\ audio_chunks # <<>>

(* C16: write changes nothing the object holds in memory, so a write       *)
(* straight after a successful write gives the same bytes, which are a     *)
(* function of that memory alone; and the file written after one more      *)
(* add_video_frame or add_audio_chunk is the file that would have been     *)
(* written before it plus the new chunk, with only the enclosing sizes     *)
(* (RIFF, LIST 'AVI ', movi) and, for a frame, the video stream_size       *)
(* changed.                                                                *)
C16_WriteIsRepeatable ==
    /\ [][/\ out'.op = "write" => UNCHANGED InMemory
          /\ (Written /\ Written') => out'.file = out.file]_vars
    /\ [](/\ Written =>
                \A structure \in {riff_structure} :
                    File = Render(structure).data
          /\ WrittenAfterFrame =>
                \A structure \in {BeforeLastFrame},
                   data \in {video_chunks[Len(video_chunks)][2]} :
                    GrownFrom(Render(structure), <<48, 48, 100, 98>>, data, TRUE)
          /\ WrittenAfterAudioChunk =>
                \A structure \in {BeforeLastAudioChunk},
                   data \in {audio_chunks[Len(audio_chunks)][2]} :
                    GrownFrom(Render(structure), <<48, 49, 119, 98>>, data, FALSE))

(* A file written, with frames and audio in it, that an add and a second   *)
(* write can follow.                                                       *)
C16_Witness ==
    /\ Written /\ AudioConfigured
    /\ Len(video_chunks) = 1 /\ Len(audio_chunks) = 1
    /\ Val(video_stream_header).stream_size = 1

FileAt(position) ==
    [data |-> File, pos |-> position, err |-> NoError, trace |-> <<>>]

(* C19: _write_chunk with a None payload writes nothing, neither tag nor   *)
(* size nor payload: the stream's bytes and position are what they were;   *)
(* and the list around it does not count the skipped chunk: the strl of an *)
(* audio stream that was never initialized records size 4 and is empty.    *)
C19_NoneChunkSkipped ==
    Written =>
        /\ \A position \in {0, 4, Len(File)}, name \in {strh, strf} :
              \A stream \in {FileAt(position)} :
                  _write_chunk(stream, none_entry(name)) = stream
        /\ ~AudioConfigured =>
              \A t \in {Tree} :
                  /\ Canonical(t)
                  /\ Len(Hdrl(t).children) = 3
                  /\ IsList(Hdrl(t).children[3], strl)
                  /\ Hdrl(t).children[3].size = 4
                  /\ Hdrl(t).children[3].children = <<>>
                  /\ Hdrl(t).size = 4 + SumFramed(Hdrl(t).children)

C19_Witness ==
    /\ Written /\ ~AudioConfigured
    /\ IsNone(wave_header) /\ audio_chunks # <<>>

(* Every node of a tree, at every depth. *)
RECURSIVE AllNodes(_)
AllNodes(nodes) ==
    IF nodes = <<>> THEN {}
    ELSE {nodes[1]} \cup AllNodes(nodes[1].children) \cup AllNodes(Tail(nodes))

(* The nodes whose size was written as a placeholder and backpatched: the  *)
(* lists and the header chunks (the chunks of hdrl).                       *)
Backpatched(t) ==
    {n \in AllNodes(t) : n.kind = "list"} \cup {n \in AllNodes(<<Hdrl(t)>>) : n.kind = "chunk"}

(* A backpatch at a node's size field changes those 4 bytes alone and      *)
(* leaves the stream where it was, at the end of the data.                 *)
PatchesOwnSizeOnly(stream, node) ==
    \A patched \in {backpatch(stream, node.at + 4, 0)} :
        /\ patched.err = NoError
        /\ patched.pos = stream.pos
        /\ Len(patched.data) = Len(stream.data)
        /\ \A i \in 1..Len(stream.data) :
              (i <= node.at + 4 \/ i > node.at + 8) => patched.data[i] = stream.data[i]
        /\ SubSeq(patched.data, node.at + 5, node.at + 8) = <<0, 0, 0, 0>>
        /\ \A restored \in {backpatch(patched, node.at + 4, node.size)} :
              restored.data = stream.data /\ restored.pos = stream.pos

(* C20: each backpatch, of a list size or of a header chunk's size,        *)
(* overwrites the 4 bytes of that node's size field and no other byte, and *)
(* puts the stream back at the end of the data written so far; so when     *)
(* write is done the position is the length of the output.                 *)
C20_BackpatchInPlace ==
    Written =>
        /\ out.pos = Len(File)
        /\ \A t \in {Tree} :
              /\ Canonical(t)
              /\ \A stream \in {FileAt(Len(File))} :
                    \A node \in Backpatched(t) : PatchesOwnSizeOnly(stream, node)

C20_Witness ==
    /\ Written /\ AudioConfigured
    /\ video_chunks # <<>> /\ audio_chunks # <<>>
    /\ out.pos = Len(File) /\ Len(File) > 300

(* Where in the history an event is, and how often it is there. *)
Events(trace, event, at) ==
    {i \in 1..Len(trace) : trace[i] = [event |-> event, at |-> at]}

Moment(trace, event, at) == CHOOSE i \in Events(trace, event, at) : TRUE

(* C21: by the time write returns, every size placeholder it wrote has     *)
(* been backpatched exactly once, after it was written; the size of a      *)
(* nested node is backpatched before the size of a list that contains it,  *)
(* the RIFF root's last of all; the walk over the tree has ended; and no   *)
(* size field of a list or header chunk still holds the placeholder 0.     *)
C21_EveryPlaceholderPatchedOnce ==
    Written =>
        \A t \in {Tree}, trace \in {out.trace} :
            /\ Canonical(t)
            /\ \A patched \in {Backpatched(t)} :
                  /\ Len(trace) = 2 * Cardinality(patched)
                  /\ \A i \in 1..Len(trace) :
                        /\ trace[i].event \in {"placeholder", "backpatch"}
                        /\ \E n \in patched : trace[i].at = n.at + 4
                  /\ \A n \in patched :
                        /\ Cardinality(Events(trace, "placeholder", n.at + 4)) = 1
                        /\ Cardinality(Events(trace, "backpatch", n.at + 4)) = 1
                        /\ Moment(trace, "placeholder", n.at + 4)
                              < Moment(trace, "backpatch", n.at + 4)
                        /\ n.size # 0
                        /\ \A inner \in AllNodes(n.children) \cap patched :
                              Moment(trace, "backpatch", inner.at + 4)
                                 < Moment(trace, "backpatch", n.at + 4)
            /\ trace[Len(trace)] = [event |-> "backpatch", at |-> t[1].at + 4]

C21_Witness ==
    /\ Written /\ AudioConfigured
    /\ Len(out.trace) = 22
    /\ out.trace[1] = [event |-> "placeholder", at |-> 4]
    /\ video_chunks # <<>> /\ audio_chunks # <<>>

U16(b, at) == b[at + 1] + 256 * b[at + 2]

AudioParamsHeld ==
    [channel_count |-> Val(Val(wave_header).channel_count),
     samples_per_second |-> Val(Val(wave_header).samples_per_second),
     bits_per_sample |-> Val(Val(wave_header).bits_per_sample)]

(* C22: the wave format written holds the channel count, sample rate and   *)
(* bits per sample given to initialize_audio_stream, a block alignment of  *)
(* channel_count * bits_per_sample (not divided by 8) and an average byte  *)
(* rate of sample_rate * channel_count * bits_per_sample, both worked out  *)
(* from the fields held when write runs.                                   *)
C22_DerivedWaveFields ==
    (Written /\ AudioConfigured) =>
        \A t \in {Tree}, held \in {AudioParamsHeld} :
            /\ held \in AudioParams
            /\ Len(AudioStrf(t)) = 1
            /\ \A b \in {AudioStrf(t)[1].payload} :
                  /\ Len(b) >= 16
                  /\ U16(b, 2) = held.channel_count
                  /\ U32(b, 4) = held.samples_per_second
                  /\ U16(b, 14) = held.bits_per_sample
                  /\ U16(b, 12) = held.channel_count * held.bits_per_sample
                  /\ U32(b, 8) = held.samples_per_second * held.channel_count
                                     * held.bits_per_sample
                  /\ U32(b, 8) = U32(b, 4) * U16(b, 12)

C22_Witness ==
    /\ Written /\ AudioConfigured
    /\ AudioParamsHeld.samples_per_second = 11025
    /\ U16(AudioStrf(Tree)[1].payload, 12) = 32
    /\ U32(AudioStrf(Tree)[1].payload, 8) = 352800

FrameTag == <<48, 48>> \o AviStreamTwoCC_UncompressedVideo

FramesWritten(t) == Len(Tagged(Movi(t).children, FrameTag))

FramesAccepted ==
    Cardinality({i \in 1..Len(calls.video) : calls.video[i].initialized})

(* C23: an add_video_frame that fails, because the video stream was not    *)
(* yet initialized, leaves the video chunk sequence as it was, and so a    *)
(* file written after the stream is initialized holds one 00db chunk per   *)
(* accepted frame and none for a rejected one.                             *)
C23_RejectedFrameNotKept ==
    /\ [][(out'.op = "add_video_frame" /\ out'.err # NoError
              /\ Len(calls'.video) = Len(calls.video) + 1)
           => video_chunks' = video_chunks]_vars
    /\ [](Written =>
             \A t \in {Tree} : Canonical(t) /\ FramesWritten(t) = FramesAccepted)

(* C24: whenever the video stream is initialized, its header's stream_size *)
(* is the number of entries of the video chunk sequence, and the stream    *)
(* size written in the video strh is the number of 00db chunks in movi,    *)
(* also after the video stream was initialized a second time.              *)
C24_StreamSizeCountsChunks ==
    /\ VideoConfigured => Val(video_stream_header).stream_size = Len(video_chunks)
    /\ Written =>
          \A t \in {Tree} :
              /\ Canonical(t)
              /\ Len(StrlOf(t, AviStreamType_Video)) = 1
              /\ U32(File, StreamSizeField(t)) = FramesWritten(t)

S16(b, at) == b[at + 1] + 256 * (IF b[at + 2] >= 128 THEN b[at + 2] - 256 ELSE b[at + 2])

(* left, top, right, bottom as a strh chunk holds them. *)
RectangleOf(node) ==
    <<S16(node.payload, 48), S16(node.payload, 50),
      S16(node.payload, 52), S16(node.payload, 54)>>

VideoStrh(t) == StrlOf(t, AviStreamType_Video)[1].children[1]

(* The rectangle this object's own initialize_video_stream calls asked for. *)
OwnRectangle ==
    <<0, 0, Val(Val(bitmap_header).width), Val(Val(bitmap_header).height)>>

(* C25: an initialize_video_stream on another AviFile object changes no    *)
(* header field value this object's headers hold, the destination          *)
(* rectangle included, and no byte this object's write produces: the       *)
(* rectangle in its video strh is the one its own calls asked for.         *)
C25_InstancesDoNotInterfere ==
    /\ [][out'.op = "another.initialize_video_stream" => UNCHANGED InMemory]_vars
    /\ []((Written /\ VideoConfigured) =>
             \A t \in {Tree} :
                 /\ Canonical(t)
                 /\ Len(StrlOf(t, AviStreamType_Video)) = 1
                 /\ Len(VideoStrh(t).payload) = 56
                 /\ RectangleOf(VideoStrh(t)) = OwnRectangle)

(* What C25 says of the bytes, taken alone. *)
OwnRectangleWritten ==
    (Written /\ VideoConfigured) =>
        \A t \in {Tree} : RectangleOf(VideoStrh(t)) = OwnRectangle

AudioStrh(t) == StrlOf(t, AviStreamType_Audio)[1].children[1]

(* The audio strh of a container whose video stream was never touched. *)
AudioStrhAlone ==
    AviStreamHeader_encode(
        [stream_type |-> Val(audio_stream_header).stream_type,
         rate |-> Val(audio_stream_header).rate,
         stream_size |-> Val(audio_stream_header).stream_size,
         stream_rectangle |-> <<0, 0, 0, 0>>], open_wb).data

(* C26: the audio strh chunk written is the same whether or not the video  *)
(* stream was initialized, with whatever dimensions and in whichever       *)
(* order: its bytes are those of the audio stream header alone, and its    *)
(* destination rectangle is 0, 0, 0, 0.                                    *)
C26_AudioStrhIndependentOfVideo ==
    (Written /\ AudioConfigured) =>
        \A t \in {Tree}, alone \in {AudioStrhAlone} :
            /\ Canonical(t)
            /\ Len(StrlOf(t, AviStreamType_Audio)) = 1
            /\ Len(AudioStrh(t).payload) = 56
            /\ RectangleOf(AudioStrh(t)) = <<0, 0, 0, 0>>
            /\ AudioStrh(t).payload = alone

(* How many stream lists of hdrl hold a strh chunk. *)
StreamsWritten(t) ==
    Cardinality({i \in 1..Len(Hdrl(t).children) :
                    /\ IsList(Hdrl(t).children[i], strl)
                    /\ Tagged(Hdrl(t).children[i].children, strh) # <<>>})

StreamsInitialized ==
    (IF VideoConfigured THEN 1 ELSE 0) + (IF AudioConfigured THEN 1 ELSE 0)

(* C27: the stream count written in avih is the number of streams that     *)
(* were initialized and have a strh chunk in the file: 1 with the video    *)
(* stream alone, 2 with the video and the audio stream.                    *)
C27_StreamCountCountsStreams ==
    Written =>
        \A t \in {Tree} :
            /\ Canonical(t)
            /\ Len(Avih(t)) = 1
            /\ Len(Avih(t)[1].payload) = 56
            /\ StreamsWritten(t) = StreamsInitialized
            /\ U32(Avih(t)[1].payload, 24) = StreamsWritten(t)

(* What holds of the file's stream lists and of a video-only file. *)
StreamCountOfVideoAlone ==
    Written =>
        \A t \in {Tree} :
            /\ Canonical(t) /\ Len(Avih(t)) = 1 /\ Len(Avih(t)[1].payload) = 56
            /\ StreamsWritten(t) = StreamsInitialized
            /\ ~AudioConfigured => U32(Avih(t)[1].payload, 24) = StreamsWritten(t)

AudioStrhUpToRectangle ==
    (Written /\ AudioConfigured) =>
        \A t \in {Tree}, alone \in {AudioStrhAlone} :
            /\ Canonical(t)
            /\ Len(StrlOf(t, AviStreamType_Audio)) = 1
            /\ Len(AudioStrh(t).payload) = 56
            /\ SubSeq(AudioStrh(t).payload, 1, 48) = SubSeq(alone, 1, 48)

StreamSizeWithoutRejectedFrames ==
    AllFramesInitialized => C24_StreamSizeCountsChunks

(* The sink as a header's encode finds it: the file up to and including    *)
(* the chunk's size field, positioned right after that field.              *)
SinkAfterSizeField(file, node) ==
    [data |-> SubSeq(file, 1, node.at + 8), pos |-> node.at + 8,
     err |-> NoError, trace |-> <<>>]

(* nodes holds the one chunk written for a header entry, or nothing for an *)
(* entry whose header is None.                                             *)
HeaderWritten(file, nodes, entry) ==
    IF entry.kind # "object" THEN nodes = <<>>
    ELSE /\ Len(nodes) = 1
         /\ \A node \in {nodes[1]} :
               \A sink \in {SinkAfterSizeField(file, node)} :
                  \A encoded \in {encode(entry.body, sink)} :
                     /\ encoded.err = NoError
                     /\ node.size = tell(encoded) - tell(sink)
                     /\ node.size = Len(encoded.data) - Len(sink.data)
                     /\ node.at + 8 + node.size <= Len(file)
                     /\ encoded.data = SubSeq(file, 1, node.at + 8 + node.size)
                     /\ node.payload = encode(entry.body, open_wb).data

(* C28: the size recorded for a header chunk is the number of bytes the    *)
(* header's encode wrote (the position after encode minus the position     *)
(* right after the size field), and those bytes stand once, unbroken,      *)
(* right after the size field; for the main header, both stream headers,   *)
(* the wave format and the bitmap header with or without a palette.        *)
C28_HeaderSizeIsEncodedLength ==
    Written =>
        \A t \in {Tree}, file \in {File}, headers \in {hdrl_structure} :
            /\ Canonical(t)
            /\ Len(Hdrl(t).children) = 3
            /\ HeaderWritten(file, Avih(t), headers[1])
            /\ \A i \in 2..3 :
                  /\ HeaderWritten(file, Tagged(Hdrl(t).children[i].children, strh),
                                   headers[i].body[1])
                  /\ HeaderWritten(file, Tagged(Hdrl(t).children[i].children, strf),
                                   headers[i].body[2])

C28_Witness ==
    /\ Written /\ AudioConfigured
    /\ ~IsNone(Val(bitmap_header).palette)
    /\ Len(VideoStrf(Tree)) = 1 /\ VideoStrf(Tree)[1].size = 43
    /\ Len(AudioStrf(Tree)) = 1 /\ AudioStrf(Tree)[1].size = 18
    /\ Avih(Tree)[1].size = 56

====
